---- MODULE Spec2Model ----
(***************************************************************************)
(* Model of pdf_extractor.py: a command-line tool that extracts the text   *)
(* of a PDF with pdfplumber, falls back to PyPDF2 and pikepdf when the     *)
(* result is short, and prints one JSON object.                            *)
(*                                                                         *)
(* Python strings are TLA+ strings; the three PDF libraries are black      *)
(* boxes whose calls return a page text, return None, or raise.            *)
(***************************************************************************)
EXTENDS Integers, Sequences, FiniteSets, TLC

\* Bounds of the model.
MaxPages == 2        \* a file has 0..MaxPages pages
MaxArgs == 2         \* 0..MaxArgs command-line arguments after the program name

\* The length threshold of main (lines 65 and 71).
Threshold == 100

(***************************************************************************)
(* Python string primitives used by the program.                           *)
(***************************************************************************)
RECURSIVE Rep(_, _)
Rep(s, n) == IF n = 0 THEN "" ELSE s \o Rep(s, n - 1)

\* bool(s) of a str: the empty string is falsy.
Truthy(s) == s /= ""

IsSpace(c) == c \in {" ", "\t", "\n"}

RECURSIVE LStrip(_)
LStrip(s) ==
    IF s = "" THEN s
    ELSE IF IsSpace(Head(s)) THEN LStrip(Tail(s)) ELSE s

RECURSIVE RStrip(_)
RStrip(s) ==
    IF s = "" THEN s
    ELSE IF IsSpace(SubSeq(s, Len(s), Len(s)))
         THEN RStrip(SubSeq(s, 1, Len(s) - 1))
         ELSE s

\* str.strip(): removes leading and trailing whitespace.
strip(s) == RStrip(LStrip(s))

Digits == "0123456789"

\* str(n) of a non-negative int, as formatted by an f-string.
RECURSIVE str(_)
str(n) ==
    IF n < 10 THEN SubSeq(Digits, n + 1, n + 1)
    ELSE str(n \div 10) \o SubSeq(Digits, (n % 10) + 1, (n % 10) + 1)

(***************************************************************************)
(* The results dict of main: insertion-ordered key/value pairs.            *)
(***************************************************************************)
DictHas(d, k) == \E i \in 1..Len(d) : d[i][1] = k

DictSet(d, k, v) ==
    IF DictHas(d, k)
    THEN [i \in 1..Len(d) |-> IF d[i][1] = k THEN <<k, v>> ELSE d[i]]
    ELSE Append(d, <<k, v>>)

DictGet(d, k, default) ==
    IF DictHas(d, k)
    THEN d[CHOOSE i \in 1..Len(d) : d[i][1] = k][2]
    ELSE default

DictKeys(d) == [i \in 1..Len(d) |-> d[i][1]]

(***************************************************************************)
(* The environment: paths, and what the libraries can answer.              *)
(***************************************************************************)
Paths == {"a.pdf", "b.pdf"}

RECURSIVE SeqsUpTo(_, _)
SeqsUpTo(S, n) ==
    IF n = 0 THEN {<<>>}
    ELSE LET shorter == SeqsUpTo(S, n - 1)
         IN  shorter \cup {Append(q, x) : q \in {r \in shorter : Len(r) = n - 1}, x \in S}

\* Texts a page's extract_text() can return: nothing, a short text with
\* surrounding blanks, and a text of which two pages joined by the blank-line
\* separator reach the threshold exactly.
PageTexts == {"", " Hi ", Rep("x", 49)}

\* Failures a library call can raise: exception class and str(e).
LibErrors ==
    { [cls |-> "Exception", msg |-> ""],
      [cls |-> "PdfReadError", msg |-> "EOF marker not found"],
      [cls |-> "OSError", msg |-> Rep("e", 100)] }

\* None + "\n\n" in extract_with_pyPDF2 (line 16).
NoneConcatError ==
    [cls |-> "TypeError",
     msg |-> "unsupported operand type(s) for +: 'NoneType' and 'str'"]

\* The classes an "except Exception" clause catches: every failure the
\* libraries and the interpreter raise here derives from Exception.
ExceptionClasses == {"Exception", "PdfReadError", "OSError", "TypeError"}

VARIABLES
    argv,        \* sys.argv: program name followed by the arguments
    fs,          \* the paths that exist on the filesystem
    numPages,    \* number of pages of the file
    pc,          \* position of the program
    pdf_path,    \* main's pdf_path
    results,     \* main's results dict
    best_result, \* main's best_result
    chosen,      \* which backend's result best_result was taken from
    text,        \* the running backend's text accumulator
    page_num,    \* pages the running backend has visited
    exc,         \* <<e>> while exception e is in flight, else <<>>
    ret,         \* value returned by the last backend call
    trace,       \* history: <<"call", fn>> and <<"return", fn, value>> events
    stdout,      \* the JSON objects printed
    exitCode     \* process exit status, -1 while running

vars == <<argv, fs, numPages, pc, pdf_path, results, best_result, chosen,
          text, page_num, exc, ret, trace, stdout, exitCode>>

mainVars == <<pdf_path, results, best_result, chosen, stdout, exitCode>>
frameVars == <<text, page_num, exc, ret>>
envVars == <<argv, fs, numPages>>

Init ==
    /\ argv \in {<<"pdf_extractor.py">> \o a : a \in SeqsUpTo(Paths, MaxArgs)}
    /\ fs \in SUBSET Paths
    /\ numPages \in 0..MaxPages
    /\ pc = "main"
    /\ pdf_path = ""
    /\ results = <<>>
    /\ best_result = ""
    /\ chosen = "none"
    /\ text = ""
    /\ page_num = 0
    /\ exc = <<>>
    /\ ret = ""
    /\ trace = <<>>
    /\ stdout = <<>>
    /\ exitCode = -1

(***************************************************************************)
(* main, lines 48-57: argument and file checks.                            *)
(***************************************************************************)
\* Variant: the test only rejects a missing argument, len(sys.argv) < 2.
ArgCountTooFew(av) == Len(av) < 2

\* len(sys.argv) != 2
ArgCountWrong(av) == Len(av) /= 2

\* Variant: the test looks at the script's own path, which always exists.
PathExistsOfScript(p) == argv[1] = "pdf_extractor.py"

\* Path(pdf_path).exists()
PathExists(p) == p \in fs

UsageError == [error |-> "Please provide PDF file path"]

FileNotFoundError(p) == [error |-> "File not found: " \o p]

\* print(json.dumps(obj)); sys.exit(1)
PrintAndExit1(obj) ==
    /\ stdout' = Append(stdout, obj)
    /\ exitCode' = 1
    /\ pc' = "exited"

main_check_args ==
    /\ pc = "main"
    /\ IF ArgCountWrong(argv)
       THEN PrintAndExit1(UsageError) /\ UNCHANGED pdf_path
       ELSE /\ pdf_path' = argv[2]
            /\ pc' = "check_exists"
            /\ UNCHANGED <<stdout, exitCode>>
    /\ UNCHANGED <<results, best_result, chosen, trace>>
    /\ UNCHANGED frameVars
    /\ UNCHANGED envVars

main_check_exists ==
    /\ pc = "check_exists"
    /\ IF ~PathExists(pdf_path)
       THEN PrintAndExit1(FileNotFoundError(pdf_path))
       ELSE /\ pc' = "call_pdfplumber"
            /\ UNCHANGED <<stdout, exitCode>>
    /\ UNCHANGED <<pdf_path, results, best_result, chosen, trace>>
    /\ UNCHANGED frameVars
    /\ UNCHANGED envVars

(***************************************************************************)
(* Calling a backend and leaving it: by a return value, by the handler of  *)
(* its try block, or (were the handler not to match) by the exception      *)
(* escaping main, which ends the process with a traceback and status 1.    *)
(***************************************************************************)
Call(fn) ==
    /\ trace' = Append(trace, <<"call", fn>>)
    /\ text' = ""
    /\ page_num' = 0
    /\ exc' = <<>>
    /\ pc' = fn \o "_open"
    /\ UNCHANGED ret
    /\ UNCHANGED mainVars
    /\ UNCHANGED envVars

Return(fn, value) ==
    /\ ret' = value
    /\ trace' = Append(trace, <<"return", fn, value>>)
    /\ pc' = "store_" \o fn

Raise(fn, e) ==
    /\ exc' = <<e>>
    /\ pc' = fn \o "_except"

\* Variant: the clause names one class only, "except OSError as e".
CatchesOSErrorOnly(e) == e.cls = "OSError"

\* except Exception as e
Catches(e) == e.cls \in ExceptionClasses

\* The except clause of backend fn, whose result is the prefixed str(e).
Except(fn, prefix) ==
    /\ IF Catches(exc[1])
       THEN /\ Return(fn, prefix \o exc[1].msg)
            /\ exc' = <<>>
            /\ UNCHANGED exitCode
       ELSE /\ pc' = "crashed"
            /\ exitCode' = 1
            /\ UNCHANGED <<ret, trace, exc>>
    /\ UNCHANGED <<text, page_num>>
    /\ UNCHANGED <<pdf_path, results, best_result, chosen, stdout>>
    /\ UNCHANGED envVars

\* Opening the file with the library: it opens, or the open raises.
Open(fn) ==
    /\ \/ pc' = fn \o "_loop" /\ UNCHANGED exc
       \/ \E e \in LibErrors : Raise(fn, e)
    /\ UNCHANGED <<text, page_num, ret, trace>>
    /\ UNCHANGED mainVars
    /\ UNCHANGED envVars

(***************************************************************************)
(* extract_with_pdfplumber, lines 21-32.                                   *)
(***************************************************************************)
extract_with_pdfplumber_open ==
    /\ pc = "pdfplumber_open"
    /\ Open("pdfplumber")

\* One iteration of "for page in pdf.pages": page.extract_text() returns a
\* text or None, or the iteration or the extraction raises.
extract_with_pdfplumber_page ==
    /\ pc = "pdfplumber_loop"
    /\ page_num < numPages
    /\ \/ \E page_text \in PageTexts :
             /\ text' = IF Truthy(page_text) THEN text \o page_text \o "\n\n" ELSE text
             /\ page_num' = page_num + 1
             /\ UNCHANGED <<pc, exc>>
       \/ \* page_text is None
          /\ page_num' = page_num + 1
          /\ UNCHANGED <<text, pc, exc>>
       \/ \E e \in LibErrors :
             /\ Raise("pdfplumber", e)
             /\ UNCHANGED <<text, page_num>>
    /\ UNCHANGED <<ret, trace>>
    /\ UNCHANGED mainVars
    /\ UNCHANGED envVars

extract_with_pdfplumber_return ==
    /\ pc = "pdfplumber_loop"
    /\ page_num = numPages
    /\ Return("pdfplumber", strip(text))
    /\ UNCHANGED <<text, page_num, exc>>
    /\ UNCHANGED mainVars
    /\ UNCHANGED envVars

extract_with_pdfplumber_except ==
    /\ pc = "pdfplumber_except"
    /\ Except("pdfplumber", "PDFPlumber Error: ")

(***************************************************************************)
(* extract_with_pyPDF2, lines 9-19.                                        *)
(***************************************************************************)
\* open(pdf_path, 'rb') and PyPDF2.PdfReader(file)
extract_with_pyPDF2_open ==
    /\ pc = "pypdf2_open"
    /\ Open("pypdf2")

\* One iteration of "for page in reader.pages":
\* text += page.extract_text() + "\n\n", where None + str raises TypeError.
extract_with_pyPDF2_page ==
    /\ pc = "pypdf2_loop"
    /\ page_num < numPages
    /\ \/ \E page_text \in PageTexts :
             /\ text' = text \o page_text \o "\n\n"
             /\ page_num' = page_num + 1
             /\ UNCHANGED <<pc, exc>>
       \/ \* extract_text() is None
          /\ Raise("pypdf2", NoneConcatError)
          /\ UNCHANGED <<text, page_num>>
       \/ \E e \in LibErrors :
             /\ Raise("pypdf2", e)
             /\ UNCHANGED <<text, page_num>>
    /\ UNCHANGED <<ret, trace>>
    /\ UNCHANGED mainVars
    /\ UNCHANGED envVars

extract_with_pyPDF2_return ==
    /\ pc = "pypdf2_loop"
    /\ page_num = numPages
    /\ Return("pypdf2", strip(text))
    /\ UNCHANGED <<text, page_num, exc>>
    /\ UNCHANGED mainVars
    /\ UNCHANGED envVars

extract_with_pyPDF2_except ==
    /\ pc = "pypdf2_except"
    /\ Except("pypdf2", "PyPDF2 Error: ")

(***************************************************************************)
(* extract_with_pikepdf, lines 34-46.                                      *)
(***************************************************************************)
extract_with_pikepdf_open ==
    /\ pc = "pikepdf_open"
    /\ Open("pikepdf")

\* f"Page {page_num + 1} - Content available\n", page_num counted from 0
PagePlaceholder(n) == "Page " \o str(n + 1) \o " - Content available\n"

\* One iteration of "for page_num in range(len(pdf.pages))": the page has a
\* /Contents entry or not, or reading the page raises.
extract_with_pikepdf_page ==
    /\ pc = "pikepdf_loop"
    /\ page_num < numPages
    /\ \/ \E hasContents \in BOOLEAN :
             /\ text' = IF hasContents THEN text \o PagePlaceholder(page_num) ELSE text
             /\ page_num' = page_num + 1
             /\ UNCHANGED <<pc, exc>>
       \/ \E e \in LibErrors :
             /\ Raise("pikepdf", e)
             /\ UNCHANGED <<text, page_num>>
    /\ UNCHANGED <<ret, trace>>
    /\ UNCHANGED mainVars
    /\ UNCHANGED envVars

\* Variant: the function returns text.strip() as the other two backends do.
PikepdfResultNoDefault(t) == strip(t)

\* text.strip() if text else "No extractable text found with pikepdf"
PikepdfResult(t) ==
    IF Truthy(t) THEN strip(t) ELSE "No extractable text found with pikepdf"

extract_with_pikepdf_return ==
    /\ pc = "pikepdf_loop"
    /\ page_num = numPages
    /\ Return("pikepdf", PikepdfResult(text))
    /\ UNCHANGED <<text, page_num, exc>>
    /\ UNCHANGED mainVars
    /\ UNCHANGED envVars

extract_with_pikepdf_except ==
    /\ pc = "pikepdf_except"
    /\ Except("pikepdf", "PikePDF Error: ")

(***************************************************************************)
(* main, lines 59-79: calling the backends, choosing and printing.         *)
(***************************************************************************)
\* Variant: the two statements of the fallback block exchanged.
FallbackOrderSwapped == <<"pikepdf", "pypdf2">>

\* The statements of the fallback block, in program order (lines 66-67).
FallbackOrder == <<"pypdf2", "pikepdf">>

\* Variant: the comparison includes the threshold, len(r) <= 100.
NeedsFallbackAtThreshold(r) == ~Truthy(r) \/ Len(r) <= Threshold

\* not r or len(r) < 100
NeedsFallback(r) == ~Truthy(r) \/ Len(r) < Threshold

\* Where main continues after results[fn] has been assigned.
AfterStore(fn) ==
    IF fn = "pdfplumber" THEN "fallback_check"
    ELSE IF fn = FallbackOrder[1] THEN "call_" \o FallbackOrder[2]
    ELSE "select"

\* results[fn] = extract_with_...(pdf_path): the assignment ending the call.
Store(fn) ==
    /\ results' = DictSet(results, fn, ret)
    /\ pc' = AfterStore(fn)
    /\ UNCHANGED <<pdf_path, best_result, chosen, stdout, exitCode, trace>>
    /\ UNCHANGED frameVars
    /\ UNCHANGED envVars

\* Line of main that calls the pdfplumber backend.
main_call_pdfplumber ==
    /\ pc = "call_pdfplumber"
    /\ Call("pdfplumber")

main_store_pdfplumber ==
    /\ pc = "store_pdfplumber"
    /\ Store("pdfplumber")


main_fallback_check ==
    /\ pc = "fallback_check"
    /\ pc' = IF NeedsFallback(DictGet(results, "pdfplumber", ""))
             THEN "call_" \o FallbackOrder[1]
             ELSE "select"
    /\ UNCHANGED <<trace>>
    /\ UNCHANGED mainVars
    /\ UNCHANGED frameVars
    /\ UNCHANGED envVars

\* Line of main that calls the pypdf2 backend.
main_call_pypdf2 ==
    /\ pc = "call_pypdf2"
    /\ Call("pypdf2")

main_store_pypdf2 ==
    /\ pc = "store_pypdf2"
    /\ Store("pypdf2")

\* Line of main that calls the pikepdf backend.
main_call_pikepdf ==
    /\ pc = "call_pikepdf"
    /\ Call("pikepdf")

main_store_pikepdf ==
    /\ pc = "store_pikepdf"
    /\ Store("pikepdf")


\* Variant: a non-empty primary result is kept whatever its length, the
\* secondary is taken when the primary is empty, the tertiary when both are.
SelectBestPreferPrimary(res) ==
    LET primary == DictGet(res, "pdfplumber", "")
        secondary == DictGet(res, "pypdf2", "")
        tertiary == DictGet(res, "pikepdf", "")
    IN  IF Truthy(primary) THEN [source |-> "pdfplumber", value |-> primary]
        ELSE IF Truthy(secondary) THEN [source |-> "pypdf2", value |-> secondary]
        ELSE [source |-> "pikepdf", value |-> tertiary]

\* Variant: the operands of the "or" exchanged,
\* results.get('pikepdf', '') or results.get('pypdf2', '').
SelectBestTertiaryFirst(res) ==
    LET primary == DictGet(res, "pdfplumber", "")
        secondary == DictGet(res, "pypdf2", "")
        tertiary == DictGet(res, "pikepdf", "")
    IN  IF ~Truthy(primary) \/ Len(primary) < Threshold
        THEN IF Truthy(tertiary)
             THEN [source |-> "pikepdf", value |-> tertiary]
             ELSE [source |-> "pypdf2", value |-> secondary]
        ELSE [source |-> "pdfplumber", value |-> primary]

\* Lines 70-72: the backend whose result becomes best_result, and the result.
SelectBest(res) ==
    LET primary == DictGet(res, "pdfplumber", "")
        secondary == DictGet(res, "pypdf2", "")
        tertiary == DictGet(res, "pikepdf", "")
    IN  IF ~Truthy(primary) \/ Len(primary) < Threshold
        THEN IF Truthy(secondary)
             THEN [source |-> "pypdf2", value |-> secondary]
             ELSE [source |-> "pikepdf", value |-> tertiary]
        ELSE [source |-> "pdfplumber", value |-> primary]

main_select ==
    /\ pc = "select"
    /\ best_result' = SelectBest(results).value
    /\ chosen' = SelectBest(results).source
    /\ pc' = "print"
    /\ UNCHANGED <<pdf_path, results, stdout, exitCode, trace>>
    /\ UNCHANGED frameVars
    /\ UNCHANGED envVars

\* Variant: length is taken from the primary's result, not from best_result.
SuccessObjectPrimaryLength(best, res) ==
    [success |-> TRUE,
     text |-> best,
     length |-> Len(DictGet(res, "pdfplumber", "")),
     methods_used |-> DictKeys(res)]

\* The object of lines 74-79.
SuccessObject(best, res) ==
    [success |-> TRUE,
     text |-> best,
     length |-> Len(best),
     methods_used |-> DictKeys(res)]

\* print(json.dumps({...})), after which the script ends with status 0.
main_print ==
    /\ pc = "print"
    /\ stdout' = Append(stdout, SuccessObject(best_result, results))
    /\ exitCode' = 0
    /\ pc' = "exited"
    /\ UNCHANGED <<pdf_path, results, best_result, chosen, trace>>
    /\ UNCHANGED frameVars
    /\ UNCHANGED envVars

Next ==
    \/ main_check_args
    \/ main_check_exists
    \/ main_call_pdfplumber
    \/ extract_with_pdfplumber_open
    \/ extract_with_pdfplumber_page
    \/ extract_with_pdfplumber_return
    \/ extract_with_pdfplumber_except
    \/ main_store_pdfplumber
    \/ main_fallback_check
    \/ main_call_pypdf2
    \/ extract_with_pyPDF2_open
    \/ extract_with_pyPDF2_page
    \/ extract_with_pyPDF2_return
    \/ extract_with_pyPDF2_except
    \/ main_store_pypdf2
    \/ main_call_pikepdf
    \/ extract_with_pikepdf_open
    \/ extract_with_pikepdf_page
    \/ extract_with_pikepdf_return
    \/ extract_with_pikepdf_except
    \/ main_store_pikepdf
    \/ main_select
    \/ main_print

Spec == Init /\ [][Next]_vars

(***************************************************************************)
(* Vocabulary of the properties.                                           *)
(***************************************************************************)
Backends == {"pdfplumber", "pypdf2", "pikepdf"}

HasReturned(fn) == \E i \in 1..Len(trace) : trace[i][1] = "return" /\ trace[i][2] = fn

\* The value backend fn returned to main.
Returned(fn) ==
    trace[CHOOSE i \in 1..Len(trace) : trace[i][1] = "return" /\ trace[i][2] = fn][3]

IsCall(e) == e[1] = "call"

\* The backends invoked so far, in invocation order.
Invoked == [i \in 1..Len(SelectSeq(trace, IsCall)) |-> SelectSeq(trace, IsCall)[i][2]]

Exited == pc = "exited"

\* The run ended by printing the success object.
Success ==
    /\ Exited
    /\ exitCode = 0
    /\ Len(stdout) = 1
    /\ stdout[1].success = TRUE

Out == stdout[1]

\* The primary's result is in and it sends main down the fallback path.
FallbackPath ==
    /\ HasReturned("pdfplumber")
    /\ Len(Returned("pdfplumber")) < 100

AllThree == <<"pdfplumber", "pypdf2", "pikepdf">>

(***************************************************************************)
(* Selection: C1, C2, C3.                                                  *)
(***************************************************************************)
Primary == Returned("pdfplumber")
Secondary == Returned("pypdf2")
Tertiary == Returned("pikepdf")

MethodsUsed == {Out.methods_used[i] : i \in 1..Len(Out.methods_used)}

C4_LengthIsLenOfText == Success => Out.length = Len(Out.text)

\* A success through the fallback whose text differs in length from the
\* primary's result.
C4_Witness ==
    /\ Success
    /\ FallbackPath
    /\ Out.length = Len(Out.text)
    /\ Out.length /= Len(Primary)
    /\ Out.length > 0

\* C10: extract_with_pikepdf never returns the empty string, every success
\* object has a non-empty text and a length of at least 1, and every run that
\* ends with status 0 printed success = true.
C10_SuccessTextNonEmpty ==
    /\ HasReturned("pikepdf") => Tertiary /= ""
    /\ (Exited /\ exitCode = 0) => Success
    /\ Success => (Out.text /= "" /\ Out.length >= 1)

\* A success where the primary and the secondary found no text and the fixed
\* message of pikepdf is printed.
C10_Witness ==
    /\ Success
    /\ Primary = ""
    /\ Secondary = ""
    /\ Out.text = "No extractable text found with pikepdf"
    /\ Out.success = TRUE

(***************************************************************************)
(* Failures: C5, C6, C7.                                                   *)
(***************************************************************************)
\* Exactly one argument, naming an existing path.
PassedChecks == Len(argv) = 2 /\ argv[2] \in fs

\* C5: no failure of a library leaves a backend call: an exception in flight
\* is inside the try block of the running backend, the process never ends by
\* an uncaught exception, every backend call that ended gave main a string,
\* and a run that passed the file-existence check goes on until it has
\* printed the success object.
C5_BackendsNeverThrow ==
    /\ pc /= "crashed"
    /\ exc /= <<>> => pc \in {fn \o "_except" : fn \in Backends}
    /\ \A i \in 1..Len(trace) : trace[i][1] = "return" => trace[i][3] \in STRING
    /\ PassedChecks => IF Exited THEN Success ELSE ENABLED Next

\* A success after all three backends failed, PyPDF2 on a page without a text
\* value: each result is the backend's error string.
C5_Witness ==
    /\ Success
    /\ HasReturned("pikepdf")
    /\ Primary = "PDFPlumber Error: EOF marker not found"
    /\ Secondary = "PyPDF2 Error: unsupported operand type(s) for +: 'NoneType' and 'str'"
    /\ Tertiary = "PikePDF Error: "
    /\ Out.text = Secondary

\* C6: with exactly one argument naming a path that does not exist, no
\* backend is ever invoked, nothing but the file-not-found error object with
\* that path is printed, and the process ends with status 1.
C6_MissingFile ==
    (Len(argv) = 2 /\ argv[2] \notin fs) =>
        /\ trace = <<>>
        /\ results = <<>>
        /\ stdout \in {<<>>, <<[error |-> "File not found: " \o argv[2]]>>}
        /\ Exited => /\ exitCode = 1
                     /\ stdout = <<[error |-> "File not found: " \o argv[2]]>>

\* The run on the missing b.pdf, while a.pdf exists, has ended.
C6_Witness ==
    /\ argv = <<"pdf_extractor.py", "b.pdf">>
    /\ fs = {"a.pdf"}
    /\ Exited
    /\ exitCode = 1
    /\ stdout = <<[error |-> "File not found: b.pdf"]>>
    /\ trace = <<>>

\* C7: with no argument or with two or more, main never reaches the
\* file-existence check or a backend, and it ends with status 1 having
\* printed only the usage error, whether or not the paths given exist.
C7_WrongArgumentCount ==
    (Len(argv) /= 2) =>
        /\ pc \in {"main", "exited"}
        /\ trace = <<>>
        /\ pdf_path = ""
        /\ stdout \in {<<>>, <<[error |-> "Please provide PDF file path"]>>}
        /\ Exited => /\ exitCode = 1
                     /\ stdout = <<[error |-> "Please provide PDF file path"]>>

\* The run with two arguments that both name existing files has ended.
C7_Witness ==
    /\ Len(argv) = 3
    /\ argv[2] \in fs
    /\ argv[3] \in fs
    /\ Exited
    /\ exitCode = 1
    /\ stdout = <<[error |-> "Please provide PDF file path"]>>

(***************************************************************************)
(* Order of the backend calls: C9.                                         *)
(***************************************************************************)
CallOrder ==
    << <<"call", "pdfplumber">>, <<"return", "pdfplumber">>,
       <<"call", "pypdf2">>, <<"return", "pypdf2">>,
       <<"call", "pikepdf">>, <<"return", "pikepdf">> >>

\* C9: the calls and returns of the backends happen one after another in the
\* order pdfplumber, pypdf2, pikepdf, each backend at most once and none
\* before the previous one has returned; a success in the fallback path has
\* invoked all three; and methods_used lists the invoked backends in their
\* invocation order.
C9_SequentialFixedOrder ==
    /\ Len(trace) <= Len(CallOrder)
    /\ \A i \in 1..Len(trace) : <<trace[i][1], trace[i][2]>> = CallOrder[i]
    /\ (Success /\ FallbackPath) => Invoked = AllThree
    /\ Success => Out.methods_used = Invoked

\* A success where pypdf2 returned 100 or more characters and pikepdf was
\* invoked all the same.
C9_Witness ==
    /\ Success
    /\ FallbackPath
    /\ Len(Secondary) >= 100
    /\ Invoked = AllThree
    /\ Out.methods_used = AllThree
    /\ Out.text = Secondary

====
